---------------------------- MODULE Spec2Model ----------------------------
(***************************************************************************)
(* Model of the Where-Winds-Meet instrument player.                        *)
(*                                                                         *)
(*   - play_macro (wind_instrument_gui.py): the playback loop, one step    *)
(*     per statement that reads the clock, reads or waits on the shared    *)
(*     threading.Event, or calls the key-emission function.                *)
(*   - MainWindow: the GUI thread's handlers, the Qt event queue and the   *)
(*     play threads they start.                                            *)
(*   - midi_tools.macro / tempo / pitch_to_keymap: the macro builder, as   *)
(*     operators.                                                          *)
(*                                                                         *)
(* Time is counted in clock units of one second.  The wall clock is read    *)
(* only as a difference (time.time() - start, a timeout), so the model      *)
(* keeps the differences: per play thread the time elapsed since start,     *)
(* followed until it is past every event of the macro played, and per timed *)
(* wait the time left until it expires.  Tick advances them all.            *)
(* threading.Event is a flag plus, for every thread blocked in Event.wait,  *)
(* the notification it received: Event.set() notifies every thread that is  *)
(* blocked at that moment, and a notified wait returns True even if the     *)
(* flag has been cleared since.                                             *)
(***************************************************************************)
EXTENDS Integers, Sequences, FiniteSets, TLC

\* ------------------------------------------------------------------ bounds
\* Number of play threads the GUI may create in one run.
MaxThreads == 2
\* play_macro in isolation: macros of at most MaxLen events, times in 0..MaxT.
MaxLen == 3
MaxT == 2

Tids == 1..MaxThreads

NoMacro == <<>>

\* ------------------------------------------------------------------ state
VARIABLES
  stop_event,   \* the flag of self.stop_event (threading.Event)
  thr,          \* per play thread: position and locals of worker/play_macro
  sent,         \* per play thread: the events passed to keyboard.send by the
                \* current play_macro call, as indices into its macro
  progress,     \* per play thread: the progress_callback calls of the current
                \* play_macro call, as <<value, elapsed, total_duration>>
  \* MainWindow
  current_midi_path,  \* self.current_midi_path (a path or None)
  current_macro,      \* self.current_macro: None, or the macro built from a
                      \* path, named by that path
  macro_cache,        \* self.macro_cache: path -> macro (named by its path), None = absent
  play_thread,        \* self.play_thread: a thread id, 0 = None
  playlist_mode,      \* self.playlist_mode
  is_paused,          \* self.is_paused
  macros_loading,     \* self.macros_loading
  current_row,        \* self.playlist.currentRow(), -1 = no selection
  main,               \* the GUI thread: idle in the event loop, or blocked inside a handler
  qt_queue,           \* queued invokeMethod calls posted by play threads, in order
  \* history
  stopReq,            \* per play thread: a stop was requested for it
  pausedT,            \* per play thread: a clock unit passed while it was paused
                      \* inside its current play_macro call
  \* midi_tools.macro.csv_to_keystroke_macro
  events,             \* the records load_midicsv returned for the csv file
  macro,              \* the macro returned
  build,              \* "start" before the call, then "done" (returned) or "raised"
  \* midi_tools.tempo.ticks_to_ms
  tick_arg,           \* the tick of the last call, -1 before the first
  ms_ret,             \* what that call returned, in microseconds
  \* midi_tools.mapping.apply_hand_mapping
  window_min,         \* the arguments wmin and wmax
  window_max,
  mapped,             \* called: the call was made; result: the list returned
  \* midi_tools.pitch_to_keymap.pitch_to_key
  pitch_arg,          \* the argument
  key_combo,          \* the result of the last call, "unset" before the first
  \* midi_tools.io_midicsv.load_midicsv
  lines,              \* the lines of the file
  loaded,             \* status: "none" before the call, then "done" (returned)
                      \* or "raised"; events: the list at that point
  \* MainWindow, background loads
  builds              \* worker: per path, the load_midi workers that are inside
                      \* build_macro_from_midi(path); pool: per path, where its
                      \* _load_macro_background task is

playVars == <<stop_event, thr, sent, progress>>

guiVars == <<current_midi_path, current_macro, macro_cache, play_thread,
             playlist_mode, is_paused, macros_loading, current_row, main, qt_queue>>

histVars == <<stopReq, pausedT>>

loadVars == <<lines, loaded>>

toolVars == <<tick_arg, ms_ret, window_min, window_max, mapped, pitch_arg, key_combo,
              loadVars, builds>>

buildVars == <<events, macro, build, toolVars>>

vars == <<playVars, guiVars, histVars, buildVars>>

\* Everything but the variables play_macro touches.
notPlay == <<guiVars, histVars, buildVars>>

\* A thread that does not exist (yet).
NoThread ==
  [pc |-> "none", mode |-> "bare", macro |-> NoMacro, i |-> 0, elapsed |-> 0,
   delay |-> 0, timer |-> 0, woken |-> FALSE, total_duration |-> 0, row |-> 0]

\* Positions at which a thread is blocked in a timed Event.wait.
WaitPcs == {"wait", "gapwait"}

\* Positions inside play_macro after start = time.time().
PlayPcs == {"top", "delay", "enter", "wait", "check2", "send", "report"}

Set1(w, f) == thr' = [thr EXCEPT ![w] = f]

\* play_macro returns: its clock and its delay are gone; woken still tells
\* whether it left through a wait that returned True.
Returned(w) ==
  [thr[w] EXCEPT !.pc = "ret", !.elapsed = 0, !.delay = 0, !.timer = 0]

\* ------------------------------------------------------------ play_macro
\* time.time() - start is followed up to ClockCap(m), the first clock value
\* past every event time of the macro m played.
RECURSIVE ClockCap(_)
ClockCap(m) ==
  IF m = <<>> THEN 0
  ELSE LET rest == ClockCap(Tail(m))
       IN  IF Head(m).time + 1 > rest THEN Head(m).time + 1 ELSE rest

\* macro[i] with the source's 0-based index.
EventAt(m, i) == m[i + 1]

\* Variant: the callback is handed the index of the event.
ProgressIndex(i, n) == i

\* int((i + 1) / len(macro) * 1000)
ProgressValue(i, n) == ((i + 1) * 1000) \div n

\* lines 417-426: the empty-macro return, total_duration, start = time.time()
PlayEnter(w) ==
  /\ thr[w].pc = "call"
  /\ IF thr[w].macro = <<>>
       THEN Set1(w, Returned(w))
       ELSE Set1(w, [thr[w] EXCEPT !.pc = "top", !.i = 0, !.elapsed = 0,
                       !.total_duration = thr[w].macro[Len(thr[w].macro)].time])
  /\ sent' = [sent EXCEPT ![w] = <<>>]
  /\ progress' = [progress EXCEPT ![w] = <<>>]
  /\ pausedT' = [pausedT EXCEPT ![w] = FALSE]
  /\ UNCHANGED <<stop_event, stopReq, guiVars, buildVars>>

\* lines 427-430: next iteration of the for loop, first stop check
LoopTop(w) ==
  /\ thr[w].pc = "top"
  /\ IF thr[w].i >= Len(thr[w].macro) \/ stop_event
       THEN Set1(w, Returned(w))
       ELSE Set1(w, [thr[w] EXCEPT !.pc = "delay"])
  /\ UNCHANGED <<stop_event, sent, progress>>
  /\ UNCHANGED notPlay

\* Variant: the delay is measured from the previous event's time.
ComputeDelayFromPrevious(w) ==
  /\ thr[w].pc = "delay"
  /\ LET prev == IF thr[w].i = 0 THEN 0 ELSE EventAt(thr[w].macro, thr[w].i - 1).time
         d == EventAt(thr[w].macro, thr[w].i).time - prev
     IN  Set1(w, [thr[w] EXCEPT !.delay = IF d > 0 THEN d ELSE 0,
                                !.pc = IF d > 0 THEN "enter" ELSE "check2"])
  /\ UNCHANGED <<stop_event, sent, progress>>
  /\ UNCHANGED notPlay

\* lines 432-433: delay = event["time"] - (time.time() - start)
ComputeDelay(w) ==
  /\ thr[w].pc = "delay"
  /\ LET d == EventAt(thr[w].macro, thr[w].i).time - thr[w].elapsed
     IN  Set1(w, [thr[w] EXCEPT !.delay = IF d > 0 THEN d ELSE 0,
                                !.pc = IF d > 0 THEN "enter" ELSE "check2"])
  /\ UNCHANGED <<stop_event, sent, progress>>
  /\ UNCHANGED notPlay

\* line 434, entry of stop_event.wait(delay): under the Event's lock, return
\* True at once if the flag is set, else block for at most delay
WaitEnter(w) ==
  /\ thr[w].pc = "enter"
  /\ IF stop_event
       THEN Set1(w, Returned(w))
       ELSE Set1(w, [thr[w] EXCEPT !.pc = "wait", !.woken = FALSE, !.delay = 0,
                                   !.timer = thr[w].delay])
  /\ UNCHANGED <<stop_event, sent, progress>>
  /\ UNCHANGED notPlay

\* Variant: the wait returns the flag as it is at wake-up.
WaitWakeFlag(w) ==
  /\ thr[w].pc = "wait"
  /\ thr[w].woken \/ thr[w].timer = 0
  /\ IF stop_event
       THEN Set1(w, Returned(w))
       ELSE Set1(w, [thr[w] EXCEPT !.pc = "check2", !.woken = FALSE])
  /\ UNCHANGED <<stop_event, sent, progress>>
  /\ UNCHANGED notPlay

\* Variant: the wait has no timeout.
WaitForever(w) ==
  /\ thr[w].pc = "wait"
  /\ thr[w].woken
  /\ Set1(w, Returned(w))
  /\ UNCHANGED <<stop_event, sent, progress>>
  /\ UNCHANGED notPlay

\* lines 434-436, return of stop_event.wait(delay): True (break) when
\* notified, False after the timeout
WaitWake(w) ==
  /\ thr[w].pc = "wait"
  /\ \/ /\ thr[w].woken
        /\ Set1(w, Returned(w))
     \/ /\ ~thr[w].woken
        /\ thr[w].timer = 0
        /\ Set1(w, [thr[w] EXCEPT !.pc = "check2"])
  /\ UNCHANGED <<stop_event, sent, progress>>
  /\ UNCHANGED notPlay

\* lines 438-439: second stop check
SecondCheck(w) ==
  /\ thr[w].pc = "check2"
  /\ IF stop_event
       THEN Set1(w, Returned(w))
       ELSE Set1(w, [thr[w] EXCEPT !.pc = "send"])
  /\ UNCHANGED <<stop_event, sent, progress>>
  /\ UNCHANGED notPlay

\* line 442: keyboard.send(event["key"])
SendKey(w) ==
  /\ thr[w].pc = "send"
  /\ sent' = [sent EXCEPT ![w] = Append(@, thr[w].i)]
  /\ Set1(w, [thr[w] EXCEPT !.pc = "report"])
  /\ UNCHANGED <<stop_event, progress>>
  /\ UNCHANGED notPlay

\* lines 445-448: progress_callback(progress, elapsed, total_duration).  The
\* calls are recorded for a bare call; the window passes progress_updated.emit,
\* whose slot only repaints the progress bar.
ReportProgress(w) ==
  /\ thr[w].pc = "report"
  /\ progress' = IF thr[w].mode = "bare" THEN [progress EXCEPT ![w] =
       Append(@, <<ProgressValue(thr[w].i, Len(thr[w].macro)),
                   thr[w].elapsed, thr[w].total_duration>>)] ELSE progress
  /\ Set1(w, [thr[w] EXCEPT !.pc = "top", !.i = @ + 1])
  /\ UNCHANGED <<stop_event, sent>>
  /\ UNCHANGED notPlay

\* threading.Event.set(): set the flag and notify every blocked waiter
EventSet ==
  /\ stop_event' = TRUE
  /\ thr' = [w \in Tids |->
               IF thr[w].pc \in WaitPcs THEN [thr[w] EXCEPT !.woken = TRUE]
                                        ELSE thr[w]]

\* threading.Event.clear()
EventClear == stop_event' = FALSE

\* The wall clock advances by one unit: time.time() - start grows for every
\* thread inside play_macro, every pending timeout comes one unit closer, and
\* a paused session has spent time paused.
Tick ==
  /\ thr' = [w \in Tids |->
       [thr[w] EXCEPT
          !.elapsed = IF thr[w].pc \in PlayPcs /\ @ < ClockCap(thr[w].macro)
                        THEN @ + 1 ELSE @,
          !.timer = IF @ > 0 THEN @ - 1 ELSE @]]
  /\ main' = [main EXCEPT !.timer = IF @ > 0 THEN @ - 1 ELSE @]
  /\ pausedT' = [w \in Tids |->
       IF is_paused /\ w = play_thread /\ thr[w].pc \in PlayPcs
          /\ thr[w].elapsed < ClockCap(thr[w].macro)
         THEN TRUE ELSE pausedT[w]]
  /\ UNCHANGED <<buildVars, stop_event, sent, progress, current_midi_path, current_macro,
                 macro_cache, play_thread, playlist_mode, is_paused, macros_loading,
                 current_row, qt_queue, stopReq>>

\* ------------------------------------------------------------ MainWindow
None == "None"

\* No background load is running or queued.
NoBuilds == [worker |-> <<>>, pool |-> <<>>]

\* No call of the midi_tools functions modelled on their own has been made.
ToolsIdle ==
  /\ tick_arg = -1
  /\ ms_ret = 0
  /\ window_min = 0
  /\ window_max = 0
  /\ mapped = [called |-> FALSE, result |-> <<>>]
  /\ pitch_arg = 0
  /\ key_combo = "unset"
  /\ lines = <<>>
  /\ loaded = [status |-> "none", events |-> <<>>]
  /\ builds = NoBuilds

\* The playlist table: row r (0-based) holds Playlist[r + 1].
Playlist == <<"a.mid", "b.mid">>
Paths == {Playlist[k] : k \in 1..Len(Playlist)}
rowCount == Len(Playlist)
PathAt(r) == Playlist[r + 1]

KeyPool == <<"q", "shift+q", "w", "ctrl+e">>

MkMacro(times) ==
  [k \in 1..Len(times) |-> [time |-> times[k], key |-> KeyPool[((k - 1) % 4) + 1]]]

\* build_macro_from_midi(path): the macro of each file of the playlist.
FileMacro(path) ==
  IF path = "a.mid" THEN MkMacro(<<0, 2>>) ELSE MkMacro(<<1>>)

\* Clock units (seconds) of join(timeout=1.0) and of PLAYLIST_GAP_SECONDS.
JoinTimeoutUnits == 1
GapUnits == 5

Idle == [pc |-> "idle", op |-> "none", arg |-> 0, timer |-> 0]

\* Variant: a thread counts as alive only while it is inside play_macro.
AliveInPlay(t) == t # 0 /\ thr[t].pc \in PlayPcs

\* threading.Thread.is_alive()
Alive(t) == t # 0 /\ thr[t].pc \notin {"none", "dead"}

\* bool(macro) for a macro named by its path
Truthy(m) == m # None /\ FileMacro(m) # <<>>

CanStart == \E w \in Tids : thr[w].pc = "none"
NewTid == CHOOSE w \in Tids : thr[w].pc = "none" /\ \A v \in Tids : thr[v].pc = "none" => w <= v

\* Whether on_play_clicked, seeing cm as self.current_macro, starts a thread.
PlayStarts(cm) == Truthy(cm) /\ macros_loading = 0 /\ ~Alive(play_thread)

\* on_play_clicked, lines 1138-1189, seeing cm as self.current_macro: the
\* early returns, the pause/resume toggle while the play thread is alive, or
\* the start of a single-track thread.  The GUI thread sleeps SLEEP_TIME
\* before the start; no handler runs and no play thread is alive meanwhile.
\* hk: called from _global_stop.  It leaves play_thread and playlist_mode to
\* PlayStarted.
OnPlayClicked(cm, hk) ==
  IF ~Truthy(cm) \/ macros_loading > 0
    THEN /\ main' = Idle
         /\ UNCHANGED <<is_paused, stop_event, thr, stopReq>>
    ELSE IF Alive(play_thread)
      THEN IF is_paused
             THEN /\ is_paused' = FALSE
                  /\ EventClear
                  /\ main' = Idle
                  /\ UNCHANGED <<thr, stopReq>>
             ELSE /\ is_paused' = TRUE
                  /\ EventSet
                  /\ main' = Idle
                  /\ stopReq' = IF hk THEN [stopReq EXCEPT ![play_thread] = TRUE]
                                      ELSE stopReq
      ELSE /\ CanStart
           /\ is_paused' = FALSE
           /\ EventClear
           /\ thr' = [thr EXCEPT ![NewTid] =
                        [NoThread EXCEPT !.pc = "s_start", !.mode = "single"]]
           /\ main' = Idle
           /\ UNCHANGED stopReq

PlayStarted(cm) ==
  /\ play_thread' = IF PlayStarts(cm) THEN NewTid ELSE play_thread
  /\ playlist_mode' = IF PlayStarts(cm) THEN FALSE ELSE playlist_mode

\* the play button
ClickPlay ==
  /\ main.pc = "idle"
  /\ OnPlayClicked(current_macro, FALSE)
  /\ PlayStarted(current_macro)
  /\ UNCHANGED <<buildVars, sent, progress, current_midi_path, current_macro, macro_cache,
                 macros_loading, current_row, qt_queue, pausedT>>

\* _on_global_hotkey -> _global_stop, lines 1333-1346
Hotkey ==
  /\ main.pc = "idle"
  /\ IF Truthy(current_macro)
       THEN OnPlayClicked(current_macro, TRUE)
       ELSE UNCHANGED <<main, is_paused, stop_event, thr, stopReq>>
  /\ PlayStarted(current_macro)
  /\ UNCHANGED <<buildVars, sent, progress, current_midi_path, current_macro, macro_cache,
                 macros_loading, current_row, qt_queue, pausedT>>

\* on_play_playlist_clicked, lines 1195-1222 (the GUI thread sleeps
\* SLEEP_TIME before the start, as in on_play_clicked)
ClickPlayPlaylist ==
  /\ main.pc = "idle"
  /\ rowCount # 0
  /\ ~Alive(play_thread)
  /\ CanStart
  /\ playlist_mode' = TRUE
  /\ EventClear
  /\ thr' = [thr EXCEPT ![NewTid] =
               [NoThread EXCEPT !.pc = "pl_top", !.mode = "playlist",
                                !.row = IF current_row < 0 THEN 0 ELSE current_row]]
  /\ play_thread' = NewTid
  /\ UNCHANGED <<buildVars, sent, progress, current_midi_path, current_macro, macro_cache,
                 is_paused, macros_loading, current_row, main, qt_queue, histVars>>

\* load_midi, lines 1044-1082, after stop_playback: returns the new
\* current_macro.  An uncached path leaves current_macro as it is while the
\* macro is built in the background.
LoadMidiMacro(path) ==
  IF macro_cache[path] # None THEN macro_cache[path] ELSE current_macro

\* What the handler that called stop_playback does once join has returned.
AfterStop(op, r) ==
  CASE op = "select" ->
         /\ current_midi_path' = PathAt(r)
         /\ current_macro' = LoadMidiMacro(PathAt(r))
         /\ main' = Idle
         /\ UNCHANGED <<is_paused, stop_event, thr, stopReq, play_thread, playlist_mode>>
    [] op = "dblclick" ->
         /\ current_midi_path' = PathAt(r)
         /\ current_macro' = LoadMidiMacro(PathAt(r))
         /\ OnPlayClicked(LoadMidiMacro(PathAt(r)), FALSE)
         /\ PlayStarted(LoadMidiMacro(PathAt(r)))
    [] op = "stop" ->
         /\ main' = Idle
         /\ UNCHANGED <<current_midi_path, current_macro, is_paused, stop_event,
                        thr, stopReq, play_thread, playlist_mode>>

\* stop_playback, lines 1323-1326, called by handler op: with a live play
\* thread set the event and block in join(timeout=1.0); else go on at once
StopPlayback(op, r) ==
  IF Alive(play_thread)
    THEN /\ EventSet
         /\ stopReq' = [stopReq EXCEPT ![play_thread] = TRUE]
         /\ main' = [pc |-> "join", op |-> op, arg |-> r, timer |-> JoinTimeoutUnits]
         /\ UNCHANGED <<current_midi_path, current_macro, is_paused, play_thread,
                        playlist_mode>>
    ELSE AfterStop(op, r)

\* play_thread.join(timeout=1.0) returns: the thread has ended, or the timeout has passed
JoinReturn ==
  /\ main.pc = "join"
  /\ ~Alive(play_thread) \/ main.timer = 0
  /\ AfterStop(main.op, main.arg)
  /\ UNCHANGED <<buildVars, sent, progress, macro_cache, macros_loading, current_row,
                 qt_queue, pausedT>>

\* on_playlist_selection_changed, lines 1020-1025: another row becomes current
SelectionChanged(r) ==
  /\ main.pc = "idle"
  /\ r # current_row
  /\ current_row' = r
  /\ StopPlayback("select", r)
  /\ UNCHANGED <<buildVars, sent, progress, macro_cache, macros_loading, qt_queue, pausedT>>

\* on_playlist_item_double_clicked, lines 1031-1035
DoubleClicked(r) ==
  /\ main.pc = "idle"
  /\ StopPlayback("dblclick", r)
  /\ UNCHANGED <<buildVars, sent, progress, macro_cache, macros_loading, current_row,
                 qt_queue, pausedT>>

\* on_stop_clicked, lines 1318-1321
StopClicked ==
  /\ main.pc = "idle"
  /\ StopPlayback("stop", 0)
  /\ UNCHANGED <<buildVars, sent, progress, macro_cache, macros_loading, current_row,
                 qt_queue, pausedT>>

\* _playback_done, lines 1290-1312, delivered by the event loop
PlaybackDone ==
  /\ main.pc = "idle"
  /\ qt_queue # <<>>
  /\ Head(qt_queue).kind = "done"
  /\ qt_queue' = Tail(qt_queue)
  /\ is_paused' = FALSE
  /\ playlist_mode' = FALSE
  /\ UNCHANGED <<buildVars, playVars, current_midi_path, current_macro, macro_cache, play_thread,
                 macros_loading, current_row, main, histVars>>

\* _set_now_playing, lines 1266-1271: the row moves with signals blocked
SetNowPlaying ==
  /\ main.pc = "idle"
  /\ qt_queue # <<>>
  /\ Head(qt_queue).kind = "now_playing"
  /\ qt_queue' = Tail(qt_queue)
  /\ current_row' = Head(qt_queue).row
  /\ UNCHANGED <<buildVars, playVars, current_midi_path, current_macro, macro_cache, play_thread,
                 playlist_mode, is_paused, macros_loading, main, histVars>>

\* ---------------------------------------------------------- play threads
\* The thread ends; the history of its last play_macro call goes with it.
Dead == [NoThread EXCEPT !.pc = "dead"]

Ended(w) ==
  /\ thr' = [thr EXCEPT ![w] = Dead]
  /\ sent' = [sent EXCEPT ![w] = <<>>]
  /\ progress' = [progress EXCEPT ![w] = <<>>]
  /\ stopReq' = [stopReq EXCEPT ![w] = FALSE]
  /\ pausedT' = [pausedT EXCEPT ![w] = FALSE]

\* on_play_clicked.worker, lines 1180-1182: read self.current_macro and call
\* play_macro (len(None) raises and ends the thread)
SingleStart(w) ==
  /\ thr[w].pc = "s_start"
  /\ IF current_macro = None
       THEN Ended(w)
       ELSE /\ Set1(w, [thr[w] EXCEPT !.pc = "call", !.macro = FileMacro(current_macro)])
            /\ UNCHANGED <<sent, progress, histVars>>
  /\ UNCHANGED <<buildVars, stop_event, guiVars>>

\* on_play_clicked.worker, lines 1183-1186: play_macro has returned
SingleExit(w) ==
  /\ thr[w].pc = "ret" /\ thr[w].mode = "single"
  /\ qt_queue' = Append(qt_queue, [kind |-> "done", row |-> 0])
  /\ Ended(w)
  /\ UNCHANGED <<buildVars, stop_event, current_midi_path, current_macro, macro_cache,
                 play_thread, playlist_mode, is_paused, macros_loading, current_row,
                 main>>

\* _playlist_worker, lines 1226-1228: next row, stop check
PlaylistTop(w) ==
  /\ thr[w].pc = "pl_top"
  /\ IF thr[w].row >= rowCount \/ stop_event
       THEN Set1(w, [thr[w] EXCEPT !.pc = "exit"])
       ELSE Set1(w, [thr[w] EXCEPT !.pc = "pl_load"])
  /\ UNCHANGED <<buildVars, stop_event, sent, progress, guiVars, histVars>>

\* _playlist_worker, lines 1230-1257: get or build the macro, publish it as
\* current, post _set_now_playing, call play_macro
PlaylistLoad(w) ==
  /\ thr[w].pc = "pl_load"
  /\ LET path == PathAt(thr[w].row)
         m == IF macro_cache[path] # None THEN macro_cache[path] ELSE path
     IN  /\ macro_cache' = [macro_cache EXCEPT ![path] = m]
         /\ current_midi_path' = path
         /\ current_macro' = m
         /\ qt_queue' = Append(qt_queue, [kind |-> "now_playing", row |-> thr[w].row])
         /\ Set1(w, [thr[w] EXCEPT !.pc = "call", !.macro = FileMacro(m)])
  /\ UNCHANGED <<buildVars, stop_event, sent, progress, play_thread, playlist_mode,
                 is_paused, macros_loading, current_row, main, histVars>>

\* _playlist_worker, lines 1258-1261: play_macro has returned
PlaylistAfter(w) ==
  /\ thr[w].pc = "ret" /\ thr[w].mode = "playlist"
  /\ IF stop_event
       THEN Set1(w, [thr[w] EXCEPT !.pc = "exit", !.woken = FALSE])
       ELSE IF thr[w].row < rowCount - 1
         THEN Set1(w, [thr[w] EXCEPT !.pc = "gapenter", !.woken = FALSE])
         ELSE Set1(w, [thr[w] EXCEPT !.pc = "pl_top", !.woken = FALSE, !.row = @ + 1])
  /\ UNCHANGED <<buildVars, stop_event, sent, progress, guiVars, histVars>>

\* _playlist_worker, line 1262, entry of stop_event.wait(PLAYLIST_GAP_SECONDS)
GapEnter(w) ==
  /\ thr[w].pc = "gapenter"
  /\ IF stop_event
       THEN Set1(w, [thr[w] EXCEPT !.pc = "exit"])
       ELSE Set1(w, [thr[w] EXCEPT !.pc = "gapwait", !.woken = FALSE,
                                   !.timer = GapUnits])
  /\ UNCHANGED <<buildVars, stop_event, sent, progress, guiVars, histVars>>

\* _playlist_worker, lines 1262-1263, return of the gap wait
GapWake(w) ==
  /\ thr[w].pc = "gapwait"
  /\ \/ /\ thr[w].woken
        /\ Set1(w, [thr[w] EXCEPT !.pc = "exit", !.woken = FALSE, !.timer = 0])
     \/ /\ ~thr[w].woken
        /\ thr[w].timer = 0
        /\ Set1(w, [thr[w] EXCEPT !.pc = "pl_top", !.row = @ + 1])
  /\ UNCHANGED <<buildVars, stop_event, sent, progress, guiVars, histVars>>

\* on_play_playlist_clicked.worker, lines 1216-1219: _playlist_worker has returned
PlaylistExit(w) ==
  /\ thr[w].pc = "exit"
  /\ qt_queue' = Append(qt_queue, [kind |-> "done", row |-> 0])
  /\ Ended(w)
  /\ UNCHANGED <<buildVars, stop_event, current_midi_path, current_macro, macro_cache,
                 play_thread, playlist_mode, is_paused, macros_loading, current_row,
                 main>>

WorkerStep(w) ==
  \/ SingleStart(w)
  \/ SingleExit(w)
  \/ PlaylistTop(w)
  \/ PlaylistLoad(w)
  \/ PlaylistAfter(w)
  \/ GapEnter(w)
  \/ GapWake(w)
  \/ PlaylistExit(w)

PlayStep(w) ==
  \/ PlayEnter(w)
  \/ LoopTop(w)
  \/ ComputeDelay(w)
  \/ WaitEnter(w)
  \/ WaitWake(w)
  \/ SecondCheck(w)
  \/ SendKey(w)
  \/ ReportProgress(w)

\* ------------------------------------------------------- the application
\* The window after construction, once the start-up loads of the playlist
\* have filled the cache: nothing selected, nothing playing.
Init ==
  /\ stop_event = FALSE
  /\ thr = [w \in Tids |-> NoThread]
  /\ sent = [w \in Tids |-> <<>>]
  /\ progress = [w \in Tids |-> <<>>]
  /\ current_midi_path = None
  /\ current_macro = None
  /\ macro_cache = [p \in Paths |-> p]
  /\ play_thread = 0
  /\ playlist_mode = FALSE
  /\ is_paused = FALSE
  /\ macros_loading = 0
  /\ current_row = -1
  /\ main = Idle
  /\ qt_queue = <<>>
  /\ stopReq = [w \in Tids |-> FALSE]
  /\ pausedT = [w \in Tids |-> FALSE]
  /\ events = <<>>
  /\ macro = <<>>
  /\ build = "none"
  /\ ToolsIdle

Next ==
  \/ ClickPlay
  \/ Hotkey
  \/ ClickPlayPlaylist
  \/ \E r \in 0..(rowCount - 1) : SelectionChanged(r)
  \/ \E r \in 0..(rowCount - 1) : DoubleClicked(r)
  \/ StopClicked
  \/ JoinReturn
  \/ PlaybackDone
  \/ SetNowPlaying
  \/ \E w \in Tids : WorkerStep(w)
  \/ \E w \in Tids : PlayStep(w)
  \/ Tick

Spec == Init /\ [][Next]_vars

\* ------------------------------------------- play_macro in isolation
RECURSIVE SeqsOver(_, _)
SeqsOver(S, n) ==
  IF n = 0 THEN {<<>>}
  ELSE LET shorter == SeqsOver(S, n - 1)
       IN  shorter \cup {Append(s, x) : s \in {t \in shorter : Len(t) = n - 1}, x \in S}

PlayMacros == {MkMacro(ts) : ts \in SeqsOver(0..MaxT, MaxLen)}

\* One call play_macro(macro, stop_event, progress_callback) on thread 1; the
\* caller's threads set and clear the event at any time.
PlayInit ==
  /\ stop_event \in BOOLEAN
  /\ \E m \in PlayMacros :
       thr = [w \in Tids |-> IF w = 1 THEN [NoThread EXCEPT !.pc = "call", !.macro = m]
                                      ELSE NoThread]
  /\ sent = [w \in Tids |-> <<>>]
  /\ progress = [w \in Tids |-> <<>>]
  /\ current_midi_path = None
  /\ current_macro = None
  /\ macro_cache = [p \in Paths |-> None]
  /\ play_thread = 0
  /\ playlist_mode = FALSE
  /\ is_paused = FALSE
  /\ macros_loading = 0
  /\ current_row = -1
  /\ main = Idle
  /\ qt_queue = <<>>
  /\ stopReq = [w \in Tids |-> w = 1 /\ stop_event]
  /\ pausedT = [w \in Tids |-> FALSE]
  /\ events = <<>>
  /\ macro = <<>>
  /\ build = "none"
  /\ ToolsIdle

RequestCancel ==
  /\ ~stop_event
  /\ EventSet
  /\ stopReq' = [stopReq EXCEPT ![1] = TRUE]
  /\ UNCHANGED <<buildVars, sent, progress, guiVars, pausedT>>

WithdrawCancel ==
  /\ stop_event
  /\ EventClear
  /\ UNCHANGED <<buildVars, thr, sent, progress, guiVars, histVars>>

PlayNext ==
  \/ PlayStep(1)
  \/ RequestCancel
  \/ WithdrawCancel
  \/ Tick

PlaySpec == PlayInit /\ [][PlayNext]_vars

PlayFairSpec == PlayInit /\ [][PlayNext]_vars /\ WF_vars(PlayStep(1)) /\ WF_vars(Tick)

\* ------------------------------------------------ midi_tools: the builder
\* A midicsv record as load_midicsv returns it.  The args are the numbers
\* their strings denote.  Macro times are in microseconds (seconds * 10^6) so
\* that they stay integers; floating-point rounding is not followed, and the
\* inputs keep tempo divisible by division.
DataRec(type, time, args) ==
  [is_data |-> TRUE, type |-> type, time |-> time, args |-> args]

NonDataRec == [is_data |-> FALSE, type |-> "", time |-> 0, args |-> <<>>]

BASE_LOW == 48
BASE_MED == BASE_LOW + 12
BASE_HIGH == BASE_LOW + 24

HighRow ==
  <<"q", "shift+q", "w", "ctrl+e", "e", "r", "shift+r", "t", "shift+t", "y", "ctrl+u", "u">>
MedRow ==
  <<"a", "shift+a", "s", "ctrl+d", "d", "f", "shift+f", "g", "shift+g", "h", "ctrl+j", "j">>
LowRow ==
  <<"z", "shift+z", "x", "ctrl+c", "c", "v", "shift+v", "b", "shift+b", "n", "ctrl+m", "m">>

\* Variant: every octave is played on the middle row.
PITCH_TO_KEY_one_row ==
  [p \in BASE_LOW..(BASE_HIGH + 11) |-> MedRow[((p - BASE_LOW) % 12) + 1]]

PITCH_TO_KEY ==
  [p \in BASE_LOW..(BASE_HIGH + 11) |->
     IF p >= BASE_HIGH THEN HighRow[p - BASE_HIGH + 1]
     ELSE IF p >= BASE_MED THEN MedRow[p - BASE_MED + 1]
     ELSE LowRow[p - BASE_LOW + 1]]

\* --------------------------------------------------- pitch_to_key on its own
\* Variant: a pitch outside the table is folded into the low octave.
pitch_to_key_folded(pitch) ==
  IF pitch \in DOMAIN PITCH_TO_KEY THEN PITCH_TO_KEY[pitch]
  ELSE PITCH_TO_KEY[BASE_LOW + (pitch % 12)]

\* PITCH_TO_KEY.get(pitch)
pitch_to_key(pitch) ==
  IF pitch \in DOMAIN PITCH_TO_KEY THEN PITCH_TO_KEY[pitch] ELSE None

\* list.sort(key=...): the stable sort of seq, keys[k] being the key of seq[k]
StableSort(seq, keys) ==
  LET n == Len(seq)
      rank(k) == Cardinality({j \in 1..n :
                                keys[j] < keys[k] \/ (keys[j] = keys[k] /\ j < k)}) + 1
  IN  [p \in 1..n |-> seq[CHOOSE k \in 1..n : rank(k) = p]]

\* Variant: without a Header the division defaults to 480 and nothing is raised.
extract_tempo_map_default_division(evs) ==
  LET hs == SelectSeq(evs, LAMBDA ev : ev.is_data /\ ev.type = "Header")
      ts == SelectSeq(evs, LAMBDA ev : ev.is_data /\ ev.type = "Tempo")
      tempos == IF ts = <<>> THEN << <<0, 500000>> >>
                ELSE [k \in 1..Len(ts) |-> <<ts[k].time, ts[k].args[1]>>]
  IN  [raised |-> FALSE,
       division |-> IF hs = <<>> THEN 480 ELSE hs[Len(hs)].args[3],
       tempo_map |-> StableSort(tempos, [k \in 1..Len(tempos) |-> tempos[k][1]])]

\* extract_tempo_map: the division of the last Header, the Tempo records as
\* (tick, tempo) sorted by tick, (0, 500000) if there is none; raises without
\* a Header
extract_tempo_map(evs) ==
  LET hs == SelectSeq(evs, LAMBDA ev : ev.is_data /\ ev.type = "Header")
      ts == SelectSeq(evs, LAMBDA ev : ev.is_data /\ ev.type = "Tempo")
      tempos == IF ts = <<>> THEN << <<0, 500000>> >>
                ELSE [k \in 1..Len(ts) |-> <<ts[k].time, ts[k].args[1]>>]
  IN  IF hs = <<>>
        THEN [raised |-> TRUE, division |-> 0, tempo_map |-> <<>>]
        ELSE [raised |-> FALSE, division |-> hs[Len(hs)].args[3],
              tempo_map |-> StableSort(tempos, [k \in 1..Len(tempos) |-> tempos[k][1]])]

\* Variant: a segment counts both of its end ticks.
RECURSIVE ticks_to_ms_from_inclusive(_, _, _, _, _)
ticks_to_ms_from_inclusive(tick, tempo_map, division, i, ms_total) ==
  IF i > Len(tempo_map) THEN ms_total
  ELSE LET t0 == tempo_map[i][1]
           tempo == tempo_map[i][2]
           t1 == IF i + 1 <= Len(tempo_map) THEN tempo_map[i + 1][1] ELSE tick
           seg_end == IF t1 < tick THEN t1 ELSE tick
           dticks == IF seg_end - t0 + 1 > 0 THEN seg_end - t0 + 1 ELSE 0
           total == ms_total + (dticks * tempo) \div division
       IN  IF tick <= t0 THEN ms_total
           ELSE IF tick < t1 THEN total
           ELSE ticks_to_ms_from_inclusive(tick, tempo_map, division, i + 1, total)

\* Variant: ms_total is overwritten by each segment instead of added to.
RECURSIVE ticks_to_ms_from_last_segment(_, _, _, _, _)
ticks_to_ms_from_last_segment(tick, tempo_map, division, i, ms_total) ==
  IF i > Len(tempo_map) THEN ms_total
  ELSE LET t0 == tempo_map[i][1]
           tempo == tempo_map[i][2]
           t1 == IF i + 1 <= Len(tempo_map) THEN tempo_map[i + 1][1] ELSE tick
           seg_end == IF t1 < tick THEN t1 ELSE tick
           dticks == IF seg_end - t0 > 0 THEN seg_end - t0 ELSE 0
           total == (dticks * tempo) \div division
       IN  IF tick <= t0 THEN ms_total
           ELSE IF tick < t1 THEN total
           ELSE ticks_to_ms_from_last_segment(tick, tempo_map, division, i + 1, total)

\* ticks_to_ms, the loop from segment i on with ms_total so far.  The value is
\* in microseconds (the source divides it by 1000.0).
RECURSIVE ticks_to_ms_from(_, _, _, _, _)
ticks_to_ms_from(tick, tempo_map, division, i, ms_total) ==
  IF i > Len(tempo_map) THEN ms_total
  ELSE LET t0 == tempo_map[i][1]
           tempo == tempo_map[i][2]
           t1 == IF i + 1 <= Len(tempo_map) THEN tempo_map[i + 1][1] ELSE tick
           seg_end == IF t1 < tick THEN t1 ELSE tick
           dticks == IF seg_end - t0 > 0 THEN seg_end - t0 ELSE 0
           total == ms_total + (dticks * tempo) \div division
       IN  IF tick <= t0 THEN ms_total
           ELSE IF tick < t1 THEN total
           ELSE ticks_to_ms_from(tick, tempo_map, division, i + 1, total)

\* Variant: the result is cut to whole milliseconds.
ticks_to_ms_whole(tick, tempo_map, division) ==
  (ticks_to_ms_from(tick, tempo_map, division, 1, 0) \div 1000) * 1000

ticks_to_ms(tick, tempo_map, division) ==
  ticks_to_ms_from(tick, tempo_map, division, 1, 0)

\* How close notes have to be, and how far a rolled chord staggers them, in
\* microseconds (0.02 s and 0.005 s).
CHORD_WINDOW_US == 20000
CHORD_ROLL_STEP_US == 5000

\* The start times s up to 40 ms, on the millisecond grid, for which the
\* double-precision difference (s + 0.02) - s of the two times in seconds is
\* 0.020000000000000004, above the double 0.02. All other differences of
\* millisecond times in that range compare with 0.02 as the exact values do.
RoundsAboveWindow ==
  {9000, 13000, 14000, 15000, 22000, 30000, 36000, 37000, 38000}

\* roll_chords_in_macro, line 124: (macro[j]["time"] - start_time) <=
\* CHORD_WINDOW_SECONDS, evaluated in double precision
WithinWindow(t, start_time) ==
  /\ t - start_time <= CHORD_WINDOW_US
  /\ ~(t - start_time = CHORD_WINDOW_US /\ start_time \in RoundsAboveWindow)

\* Variant: a note joins the group when it is close to the previous note.
RECURSIVE GroupEndFromPrevious(_, _, _)
GroupEndFromPrevious(m, i, j) ==
  IF j <= Len(m) /\ m[j].time - m[j - 1].time <= CHORD_WINDOW_US
    THEN GroupEndFromPrevious(m, i, j + 1)
    ELSE j

\* roll_chords_in_macro, lines 122-126: the end j of the group anchored at i
\* (1-based, exclusive), scanning from j
RECURSIVE GroupEnd(_, _, _)
GroupEnd(m, i, j) ==
  IF j <= Len(m) /\ WithinWindow(m[j].time, m[i].time)
    THEN GroupEnd(m, i, j + 1)
    ELSE j

\* roll_chords_in_macro, lines 120-136: the while loop from index i on
RECURSIVE RollFrom(_, _)
RollFrom(m, i) ==
  IF i > Len(m) THEN m
  ELSE LET start_time == m[i].time
           j == GroupEnd(m, i, i + 1)
           rolled == IF j - i > 1
                       THEN [k \in 1..Len(m) |->
                               IF k >= i /\ k < j
                                 THEN [m[k] EXCEPT !.time =
                                         start_time + (k - i) * CHORD_ROLL_STEP_US]
                                 ELSE m[k]]
                       ELSE m
       IN  RollFrom(rolled, j)

roll_chords_in_macro(m) == RollFrom(m, 1)

\* Variant: a note-on record of any velocity is emitted.
IsPlayableAnyVelocity(ev) ==
  /\ ev.is_data
  /\ ev.type = "Note_on_c"
  /\ pitch_to_key(ev.args[2]) # None

\* csv_to_keystroke_macro, lines 151-178: one event per sounding, resolved note
IsPlayable(ev) ==
  /\ ev.is_data
  /\ ev.type = "Note_on_c"
  /\ ev.args[3] > 0
  /\ pitch_to_key(ev.args[2]) # None

NoteEvents(evs) ==
  LET e == extract_tempo_map(evs)
      notes == SelectSeq(evs, IsPlayable)
  IN  [k \in 1..Len(notes) |->
         [time |-> ticks_to_ms(notes[k].time, e.tempo_map, e.division),
          key |-> pitch_to_key(notes[k].args[2]),
          pitch |-> notes[k].args[2],
          channel |-> notes[k].args[1]]]

\* macro.sort(key=lambda x: x["time"])
SortByTime(m) == StableSort(m, [k \in 1..Len(m) |-> m[k].time])

\* Variant: the macro is rolled without being sorted first.
csv_to_keystroke_macro_unsorted(evs) == roll_chords_in_macro(NoteEvents(evs))

csv_to_keystroke_macro(evs) == roll_chords_in_macro(SortByTime(NoteEvents(evs)))

\* One call of csv_to_keystroke_macro on the records of a file.
BuildMacro ==
  /\ build = "start"
  /\ IF extract_tempo_map(events).raised
       THEN /\ build' = "raised"
            /\ macro' = <<>>
       ELSE /\ build' = "done"
            /\ macro' = csv_to_keystroke_macro(events)
  /\ UNCHANGED <<events, toolVars, playVars, guiVars, histVars>>

\* The files: a preamble followed by at most MaxNotes note-on records.
MaxNotes == 7

HeaderRec == DataRec("Header", 0, <<1, 2, 500>>)

Preambles ==
  { <<HeaderRec>>,
    <<>>,
    <<HeaderRec, DataRec("Tempo", 0, <<500000>>)>>,
    <<HeaderRec, NonDataRec, DataRec("Tempo", 10, <<1000000>>),
      DataRec("Note_on_c", 0, <<0, 60, 0>>), DataRec("Note_off_c", 5, <<0, 60, 0>>),
      DataRec("Note_on_c", 10, <<0, 84, 64>>)>> }

NoteRecs ==
  { DataRec("Note_on_c", 0, <<0, 60, 64>>),
    DataRec("Note_on_c", 15, <<1, 83, 64>>),
    DataRec("Note_on_c", 21, <<0, 72, 64>>) }

MacroInit ==
  /\ events \in {pre \o notes : pre \in Preambles, notes \in SeqsOver(NoteRecs, MaxNotes)}
  /\ macro = <<>>
  /\ build = "start"
  /\ stop_event = FALSE
  /\ thr = [w \in Tids |-> NoThread]
  /\ sent = [w \in Tids |-> <<>>]
  /\ progress = [w \in Tids |-> <<>>]
  /\ current_midi_path = None
  /\ current_macro = None
  /\ macro_cache = [p \in Paths |-> None]
  /\ play_thread = 0
  /\ playlist_mode = FALSE
  /\ is_paused = FALSE
  /\ macros_loading = 0
  /\ current_row = -1
  /\ main = Idle
  /\ qt_queue = <<>>
  /\ stopReq = [w \in Tids |-> FALSE]
  /\ pausedT = [w \in Tids |-> FALSE]
  /\ ToolsIdle

MacroNext == BuildMacro

MacroSpec == MacroInit /\ [][MacroNext]_vars

\* ------------------------------------------------- ticks_to_ms on its own
\* The player and its window, not started.
PlayerIdle ==
  /\ stop_event = FALSE
  /\ thr = [w \in Tids |-> NoThread]
  /\ sent = [w \in Tids |-> <<>>]
  /\ progress = [w \in Tids |-> <<>>]
  /\ current_midi_path = None
  /\ current_macro = None
  /\ macro_cache = [p \in Paths |-> None]
  /\ play_thread = 0
  /\ playlist_mode = FALSE
  /\ is_paused = FALSE
  /\ macros_loading = 0
  /\ current_row = -1
  /\ main = Idle
  /\ qt_queue = <<>>
  /\ stopReq = [w \in Tids |-> FALSE]
  /\ pausedT = [w \in Tids |-> FALSE]

\* The files: a Header with one of two divisions, then at most MaxTempos Tempo
\* records in any order, two of them at tick 0 and two sharing tick 2.  Every
\* tempo is a whole multiple of 500 times each division, so that every
\* result is a whole number of half milliseconds and the source's float
\* arithmetic is exact on it.
MaxTempos == 3
MaxTick == 6

Divisions == {250, 500}

TempoRecs ==
  { DataRec("Tempo", 0, <<500000>>),
    DataRec("Tempo", 0, <<250000>>),
    DataRec("Tempo", 2, <<1000000>>),
    DataRec("Tempo", 2, <<250000>>),
    DataRec("Tempo", 4, <<500000>>) }

TempoFiles ==
  { <<DataRec("Header", 0, <<1, 2, d>>)>> \o ts :
      d \in Divisions, ts \in SeqsOver(TempoRecs, MaxTempos) }

\* One call ticks_to_ms(t, tempo_map, division) with the schedule and division
\* extract_tempo_map returned for the file.
ConvertTick(t) ==
  /\ ~extract_tempo_map(events).raised
  /\ tick_arg' = t
  /\ ms_ret' = ticks_to_ms(t, extract_tempo_map(events).tempo_map,
                             extract_tempo_map(events).division)
  /\ UNCHANGED <<events, macro, build, window_min, window_max, mapped, pitch_arg, key_combo,
                 loadVars, builds, playVars, guiVars, histVars>>

TempoInit ==
  /\ events \in TempoFiles
  /\ macro = <<>>
  /\ build = "none"
  /\ ToolsIdle
  /\ PlayerIdle

TempoNext == \E t \in 0..MaxTick : ConvertTick(t)

TempoSpec == TempoInit /\ [][TempoNext]_vars

\* ---------------------------------------- apply_hand_mapping on its own
\* The argument events holds the records as load_midicsv returned them; the
\* records kept are rewritten in place and the list returned shares them.
\* Pitches are the integers their strings denote (int(args[1]), str(new_pitch)).

\* Variant: only note-on records are note events.
IsNoteOnEvent(ev) ==
  /\ ev.is_data
  /\ ev.type = "Note_on_c"
  /\ Len(ev.args) >= 2

\* lines 177-185 and 206-214: a record the two loops look at
IsNoteEvent(ev) ==
  /\ ev.is_data
  /\ ev.type \in {"Note_on_c", "Note_off_c"}
  /\ Len(ev.args) >= 2

\* pitches (lines 174-192), as the set of its members
NotePitches(evs) == {evs[i].args[2] : i \in {j \in 1..Len(evs) : IsNoteEvent(evs[j])}}

\* Variant: the offset takes the lowest pitch to wmin.
OffsetFromLowest(evs, wmin, wmax) ==
  wmin - (CHOOSE p \in NotePitches(evs) : \A q \in NotePitches(evs) : q >= p)

\* lines 198-201: P_max = max(pitches); offset = wmax - P_max
Offset(evs, wmin, wmax) ==
  wmax - (CHOOSE p \in NotePitches(evs) : \A q \in NotePitches(evs) : q <= p)

\* Variant: only the note events that fit the window are returned.
apply_hand_mapping_notes_only(evs, wmin, wmax) ==
  IF NotePitches(evs) = {} THEN evs
  ELSE LET offset == Offset(evs, wmin, wmax)
           Fits(ev) ==
             /\ IsNoteEvent(ev)
             /\ ev.args[2] + offset >= wmin
             /\ ev.args[2] + offset <= wmax
           kept == SelectSeq(evs, Fits)
       IN  [k \in 1..Len(kept) |-> [kept[k] EXCEPT !.args[2] = @ + offset]]

\* Variant: a pitch outside the window is moved to its nearest end.
apply_hand_mapping_clamped(evs, wmin, wmax) ==
  IF NotePitches(evs) = {} THEN evs
  ELSE LET offset == Offset(evs, wmin, wmax)
           Clamp(p) == IF p < wmin THEN wmin ELSE IF p > wmax THEN wmax ELSE p
       IN  [k \in 1..Len(evs) |->
              IF IsNoteEvent(evs[k])
                THEN [evs[k] EXCEPT !.args[2] = Clamp(@ + offset)]
                ELSE evs[k]]

apply_hand_mapping(evs, wmin, wmax) ==
  IF NotePitches(evs) = {} THEN evs
  ELSE LET offset == Offset(evs, wmin, wmax)
           Deleted(ev) ==
             /\ IsNoteEvent(ev)
             /\ (ev.args[2] + offset < wmin \/ ev.args[2] + offset > wmax)
           kept == SelectSeq(evs, LAMBDA ev : ~Deleted(ev))
       IN  [k \in 1..Len(kept) |->
              IF IsNoteEvent(kept[k])
                THEN [kept[k] EXCEPT !.args[2] = @ + offset]
                ELSE kept[k]]

\* One call apply_hand_mapping(events, threshold, window_min, window_max).
ApplyHandMapping ==
  /\ ~mapped.called
  /\ mapped' = [called |-> TRUE,
                result |-> apply_hand_mapping(events, window_min, window_max)]
  /\ UNCHANGED <<events, macro, build, tick_arg, ms_ret, window_min, window_max,
                 pitch_arg, key_combo, loadVars, builds, playVars, guiVars, histVars>>

\* The files: at most MaxEvents records out of note-ons and note-offs of
\* pitches 40, 60 and 90 on two channels, a note-on without a pitch field and
\* a Header; the windows: the configured one and a narrower one.
MaxEvents == 3

MappingRecs ==
  { DataRec("Note_on_c", 0, <<0, 40, 64>>),
    DataRec("Note_off_c", 4, <<0, 40, 0>>),
    DataRec("Note_on_c", 0, <<1, 90, 64>>),
    DataRec("Note_off_c", 2, <<1, 90, 0>>),
    DataRec("Note_on_c", 1, <<0, 60, 0>>),
    DataRec("Note_off_c", 3, <<1, 60, 64>>),
    DataRec("Note_on_c", 0, <<0>>),
    HeaderRec }

Windows == { <<48, 83>>, <<60, 71>> }

MappingInit ==
  /\ events \in SeqsOver(MappingRecs, MaxEvents)
  /\ macro = <<>>
  /\ build = "none"
  /\ tick_arg = -1
  /\ ms_ret = 0
  /\ \E w \in Windows : window_min = w[1] /\ window_max = w[2]
  /\ mapped = [called |-> FALSE, result |-> <<>>]
  /\ pitch_arg = 0
  /\ key_combo = "unset"
  /\ lines = <<>>
  /\ loaded = [status |-> "none", events |-> <<>>]
  /\ builds = NoBuilds
  /\ PlayerIdle

MappingNext == ApplyHandMapping

MappingSpec == MappingInit /\ [][MappingNext]_vars

\* --------------------------------------------------- pitch_to_key on its own
\* The pitches asked for, -PitchMargin..MaxPitch: the MIDI range and an
\* octave on either side of it.
PitchMargin == 12
MaxPitch == 139

\* One call pitch_to_key(p).
ResolveKey(p) ==
  /\ pitch_arg' = p
  /\ key_combo' = pitch_to_key(p)
  /\ UNCHANGED <<events, macro, build, tick_arg, ms_ret, window_min, window_max,
                 mapped, loadVars, builds, playVars, guiVars, histVars>>

KeyInit ==
  /\ events = <<>>
  /\ macro = <<>>
  /\ build = "none"
  /\ ToolsIdle
  /\ PlayerIdle

KeyNext == \E p \in (0 - PitchMargin)..MaxPitch : ResolveKey(p)

KeySpec == KeyInit /\ [][KeyNext]_vars

\* ------------------------------------------------- load_midicsv on its own
\* A line of the file: whether its stripped text is empty or starts with "#"
\* or ";", and its comma-separated fields, stripped.
Line(note, parts) == [note |-> note, parts |-> parts]

\* int(s): the strings that are integers, with their values; any other raises
\* ValueError.
Numerals ==
  [s \in {"0", "1", "2", "60", "64", "480", "500000"} |->
     CASE s = "0" -> 0
       [] s = "1" -> 1
       [] s = "2" -> 2
       [] s = "60" -> 60
       [] s = "64" -> 64
       [] s = "480" -> 480
       [] s = "500000" -> 500000]
IsInt(s) == s \in DOMAIN Numerals

\* lines 12-37: the records of the lines up to the first whose track or tick
\* is no integer, and whether there is such a line.
RECURSIVE load_from(_, _, _)
load_from(ls, i, evs) ==
  IF i > Len(ls) THEN [status |-> "done", events |-> evs]
  ELSE LET line == ls[i]
           parts == line.parts
       IN  IF line.note \/ Len(parts) < 3
             THEN load_from(ls, i + 1,
                            Append(evs, [is_data |-> FALSE, raw_line |-> line]))
           ELSE IF ~IsInt(parts[1]) \/ ~IsInt(parts[2])
             THEN [status |-> "raised", events |-> evs]
           ELSE load_from(ls, i + 1,
                          Append(evs, [is_data |-> TRUE,
                                       raw_line |-> line,
                                       track |-> Numerals[parts[1]],
                                       time |-> Numerals[parts[2]],
                                       type |-> parts[3],
                                       args |-> SubSeq(parts, 4, Len(parts))]))

load_midicsv(ls) == load_from(ls, 1, <<>>)

\* One call load_midicsv(path) on a file of these lines.
LoadMidicsv ==
  /\ loaded.status = "none"
  /\ loaded' = load_midicsv(lines)
  /\ UNCHANGED <<lines, events, macro, build, tick_arg, ms_ret, window_min,
                 window_max, mapped, pitch_arg, key_combo, builds, playVars, guiVars,
                 histVars>>

\* The files: at most MaxLines lines out of a comment, a line of two fields,
\* two well-formed records and two records whose track or tick is no integer.
MaxLines == 3

FileLines ==
  { Line(TRUE, <<"# comment">>),
    Line(FALSE, <<"1", "0">>),
    Line(FALSE, <<"0", "0", "Header", "1", "2", "480">>),
    Line(FALSE, <<"2", "480", "Note_on_c", "0", "60", "64">>),
    Line(FALSE, <<"x", "0", "Note_on_c", "0", "60", "64">>),
    Line(FALSE, <<"1", "1.5", "Tempo", "500000">>) }

LoadInit ==
  /\ lines \in SeqsOver(FileLines, MaxLines)
  /\ loaded = [status |-> "none", events |-> <<>>]
  /\ builds = NoBuilds
  /\ events = <<>>
  /\ macro = <<>>
  /\ build = "none"
  /\ tick_arg = -1
  /\ ms_ret = 0
  /\ window_min = 0
  /\ window_max = 0
  /\ mapped = [called |-> FALSE, result |-> <<>>]
  /\ pitch_arg = 0
  /\ key_combo = "unset"
  /\ PlayerIdle

LoadNext == LoadMidicsv

LoadSpec == LoadInit /\ [][LoadNext]_vars

\* ------------------------------------------- build_macro_from_midi as a whole
\* notes.collect_note_ons: the note-on records of velocity above 0, by index;
\* raises (IndexError) on a note-on record with fewer than three arguments.
collect_note_ons(evs) ==
  LET ons == {i \in 1..Len(evs) : evs[i].is_data /\ evs[i].type = "Note_on_c"}
      idxs == {i \in ons : Len(evs[i].args) >= 3 /\ evs[i].args[3] > 0}
  IN  [raised |-> \E i \in ons : Len(evs[i].args) < 3,
       notes |-> [k \in 1..Cardinality(idxs) |->
                    LET i == CHOOSE j \in idxs : Cardinality({l \in idxs : l < j}) = k - 1
                    IN  [idx |-> i, time |-> evs[i].time,
                         channel |-> evs[i].args[1], pitch |-> evs[i].args[2]]]]

\* Variant: the records are written as they were loaded.
process_file_keep_all(evs, wmin, wmax) ==
  [raised |-> collect_note_ons(evs).raised, written |-> evs]

\* pipeline.process_file: the records written to outfile (written back and
\* loaded again by csv_to_keystroke_macro, a data record keeps its type, time
\* and arguments, a non-data record its line).
process_file(evs, wmin, wmax) ==
  LET c == collect_note_ons(evs)
  IN  IF c.raised THEN [raised |-> TRUE, written |-> <<>>]
      ELSE IF c.notes = <<>> THEN [raised |-> FALSE, written |-> evs]
      ELSE [raised |-> FALSE,
            written |-> apply_hand_mapping(evs, wmin, wmax)]

WINDOW_MIN_PITCH == 48
WINDOW_MAX_PITCH == 83

\* build_macro_from_midi: process_file with the configured window, then
\* csv_to_keystroke_macro on the file it wrote.
BuildMacroFromMidi ==
  /\ build = "start"
  /\ ~mapped.called
  /\ LET p == process_file(events, window_min, window_max)
     IN  IF p.raised
           THEN /\ build' = "raised"
                /\ UNCHANGED <<mapped, macro>>
           ELSE /\ mapped' = [called |-> TRUE, result |-> p.written]
                /\ IF extract_tempo_map(p.written).raised
                     THEN build' = "raised" /\ macro' = <<>>
                     ELSE build' = "done" /\ macro' = csv_to_keystroke_macro(p.written)
  /\ UNCHANGED <<events, tick_arg, ms_ret, window_min, window_max, pitch_arg,
                 key_combo, loadVars, builds, playVars, guiVars, histVars>>

\* The files midi_to_csv wrote: a Header and at most MaxEvents of the records
\* of MappingRecs, or those records alone.
PipelineInit ==
  /\ events \in {<<HeaderRec>> \o s : s \in SeqsOver(MappingRecs, MaxEvents)}
                  \cup SeqsOver(MappingRecs, MaxEvents)
  /\ macro = <<>>
  /\ build = "start"
  /\ tick_arg = -1
  /\ ms_ret = 0
  /\ window_min = WINDOW_MIN_PITCH
  /\ window_max = WINDOW_MAX_PITCH
  /\ mapped = [called |-> FALSE, result |-> <<>>]
  /\ pitch_arg = 0
  /\ key_combo = "unset"
  /\ lines = <<>>
  /\ loaded = [status |-> "none", events |-> <<>>]
  /\ builds = NoBuilds
  /\ PlayerIdle

PipelineNext == BuildMacroFromMidi

PipelineSpec == PipelineInit /\ [][PipelineNext]_vars

\* ------------------------------------------ the application while it loads
\* The window right after the playlist was filled: nothing is cached, every
\* path has a _load_macro_background task queued in the loader pool.  A
\* single-track play thread is followed only from its start to its end: once
\* stop_event is set play_macro returns, so join() in stop_playback finds the
\* thread ended.  The play thread is thread 1.
MaxBuilds == 1
MaxPending == 2

\* What is still to reach the GUI thread: queued calls, load_midi workers.
InFlight ==
  Len(qt_queue) + Cardinality({p \in Paths : builds.worker[p] > 0})

\* stop_playback, lines 1323-1326, with the play thread it waits for
StopNow ==
  IF Alive(play_thread)
    THEN [stop_event |-> TRUE, ended |-> TRUE]
    ELSE [stop_event |-> stop_event, ended |-> FALSE]

\* load_midi, lines 1044-1082, after stop_playback: the cached macro becomes
\* current, or a worker thread starts build_macro_from_midi(path)
LoadMidi(path) ==
  /\ current_midi_path' = path
  /\ IF macro_cache[path] # None
       THEN /\ current_macro' = macro_cache[path]
            /\ UNCHANGED builds
       ELSE /\ builds.worker[path] < MaxBuilds
            /\ builds' = [builds EXCEPT !.worker[path] = @ + 1]
            /\ UNCHANGED current_macro

\* The threads once stop_playback has returned.
AfterJoin == IF StopNow.ended THEN [thr EXCEPT ![play_thread] = Dead] ELSE thr

\* on_play_clicked, lines 1138-1189, seeing cm as self.current_macro, with
\* the threads t and the event ev as the caller left them
PlayClicked(cm, t, ev) ==
  IF ~Truthy(cm) \/ macros_loading > 0
    THEN /\ stop_event' = ev
         /\ thr' = t
         /\ UNCHANGED <<is_paused, play_thread, playlist_mode>>
    ELSE IF play_thread # 0 /\ t[play_thread].pc \notin {"none", "dead"}
      THEN /\ is_paused' = ~is_paused
           /\ stop_event' = ~is_paused
           /\ thr' = t
           /\ UNCHANGED <<play_thread, playlist_mode>>
      ELSE /\ playlist_mode' = FALSE
           /\ is_paused' = FALSE
           /\ stop_event' = FALSE
           /\ thr' = [t EXCEPT ![1] = [NoThread EXCEPT !.pc = "s_start", !.mode = "single"]]
           /\ play_thread' = 1

\* on_playlist_selection_changed, lines 1020-1025
SelectRow(r) ==
  /\ r # current_row
  /\ InFlight < MaxPending
  /\ current_row' = r
  /\ stop_event' = StopNow.stop_event
  /\ thr' = AfterJoin
  /\ qt_queue' = IF StopNow.ended
                   THEN Append(qt_queue, [kind |-> "done", row |-> 0])
                   ELSE qt_queue
  /\ LoadMidi(PathAt(r))
  /\ UNCHANGED <<sent, progress, macro_cache, play_thread, playlist_mode, is_paused,
                 macros_loading, main, histVars, events, macro, build, tick_arg,
                 ms_ret, window_min, window_max, mapped, pitch_arg, key_combo, loadVars>>

\* on_playlist_item_double_clicked, lines 1031-1035: load_midi, then
\* on_play_clicked with what load_midi left in current_macro
DoubleClickRow(r) ==
  /\ InFlight < MaxPending
  /\ qt_queue' = IF StopNow.ended
                   THEN Append(qt_queue, [kind |-> "done", row |-> 0])
                   ELSE qt_queue
  /\ LoadMidi(PathAt(r))
  /\ PlayClicked(IF macro_cache[PathAt(r)] # None THEN macro_cache[PathAt(r)]
                                                  ELSE current_macro,
                 AfterJoin, StopNow.stop_event)
  /\ UNCHANGED <<sent, progress, macro_cache, macros_loading, current_row, main,
                 histVars, events, macro, build, tick_arg, ms_ret, window_min,
                 window_max, mapped, pitch_arg, key_combo, loadVars>>

\* the play button, or the hotkey (_global_stop, lines 1338-1346)
PlayKey ==
  /\ InFlight < MaxPending
  /\ PlayClicked(current_macro, thr, stop_event)
  /\ UNCHANGED <<sent, progress, current_midi_path, current_macro, macro_cache,
                 macros_loading, current_row, main, qt_queue, histVars, buildVars>>

\* on_play_clicked.worker, lines 1180-1182: the thread reads
\* self.current_macro and calls play_macro
PlayRuns ==
  /\ thr[1].pc = "s_start"
  /\ thr' = [thr EXCEPT ![1] = [@ EXCEPT !.pc = "call",
                                         !.macro = FileMacro(current_macro)]]
  /\ UNCHANGED <<stop_event, sent, progress, guiVars, histVars, buildVars>>

\* on_play_clicked.worker, lines 1183-1186: play_macro has returned, at the
\* end of the macro or because stop_event was set
PlayReturns ==
  /\ thr[1].pc = "call"
  /\ thr' = [thr EXCEPT ![1] = Dead]
  /\ qt_queue' = Append(qt_queue, [kind |-> "done", row |-> 0])
  /\ UNCHANGED <<stop_event, sent, progress, current_midi_path, current_macro,
                 macro_cache, play_thread, playlist_mode, is_paused, macros_loading,
                 current_row, main, histVars, buildVars>>

\* load_midi.worker, lines 1062-1080: build_macro_from_midi(path) has
\* returned and _load_success is queued with the macro
BuildReturns(path) ==
  /\ builds.worker[path] > 0
  /\ builds' = [builds EXCEPT !.worker[path] = @ - 1]
  /\ qt_queue' = Append(qt_queue, [kind |-> "load_success", row |-> 0, macro |-> path])
  /\ UNCHANGED <<playVars, current_midi_path, current_macro, macro_cache, play_thread,
                 playlist_mode, is_paused, macros_loading, current_row, main, histVars,
                 events, macro, build, tick_arg, ms_ret, window_min, window_max,
                 mapped, pitch_arg, key_combo, loadVars>>

\* _load_success, lines 1084-1097, delivered by the event loop
LoadSuccess ==
  /\ qt_queue # <<>>
  /\ Head(qt_queue).kind = "load_success"
  /\ qt_queue' = Tail(qt_queue)
  /\ macro_cache' = [macro_cache EXCEPT ![current_midi_path] = Head(qt_queue).macro]
  /\ current_macro' = Head(qt_queue).macro
  /\ UNCHANGED <<playVars, current_midi_path, play_thread, playlist_mode, is_paused,
                 macros_loading, current_row, main, histVars, buildVars>>

\* _load_macro_background, lines 932-937: the task starts and looks in the cache
PoolBegin(path) ==
  /\ builds.pool[path] = "queued"
  /\ macros_loading' = macros_loading + 1
  /\ builds' = [builds EXCEPT !.pool[path] =
                  IF macro_cache[path] = None THEN "build" ELSE "cached"]
  /\ UNCHANGED <<playVars, current_midi_path, current_macro, macro_cache, play_thread,
                 playlist_mode, is_paused, current_row, main, qt_queue, histVars,
                 events, macro, build, tick_arg, ms_ret, window_min, window_max,
                 mapped, pitch_arg, key_combo, loadVars>>

\* _load_macro_background, lines 938-958: the macro is built and stored if
\* the path was not cached, and the task ends
PoolEnd(path) ==
  /\ builds.pool[path] \in {"build", "cached"}
  /\ macro_cache' = IF builds.pool[path] = "build"
                      THEN [macro_cache EXCEPT ![path] = path]
                      ELSE macro_cache
  /\ macros_loading' = IF macros_loading > 0 THEN macros_loading - 1 ELSE 0
  /\ builds' = [builds EXCEPT !.pool[path] = "done"]
  /\ UNCHANGED <<playVars, current_midi_path, current_macro, play_thread,
                 playlist_mode, is_paused, current_row, main, qt_queue, histVars,
                 events, macro, build, tick_arg, ms_ret, window_min, window_max,
                 mapped, pitch_arg, key_combo, loadVars>>

CacheInit ==
  /\ PlayerIdle
  /\ events = <<>>
  /\ macro = <<>>
  /\ build = "none"
  /\ tick_arg = -1
  /\ ms_ret = 0
  /\ window_min = 0
  /\ window_max = 0
  /\ mapped = [called |-> FALSE, result |-> <<>>]
  /\ pitch_arg = 0
  /\ key_combo = "unset"
  /\ lines = <<>>
  /\ loaded = [status |-> "none", events |-> <<>>]
  /\ builds = [worker |-> [p \in Paths |-> 0], pool |-> [p \in Paths |-> "queued"]]

CacheNext ==
  \/ \E r \in 0..(rowCount - 1) : SelectRow(r)
  \/ \E r \in 0..(rowCount - 1) : DoubleClickRow(r)
  \/ PlayKey
  \/ PlayRuns
  \/ PlayReturns
  \/ PlaybackDone
  \/ \E p \in Paths : BuildReturns(p)
  \/ LoadSuccess
  \/ \E p \in Paths : PoolBegin(p)
  \/ \E p \in Paths : PoolEnd(p)

CacheSpec == CacheInit /\ [][CacheNext]_vars

\* ------------------------------------------- rolled chords at the window edge
\* Files whose notes lie 13 and 20 ms apart: a preamble followed by at most
\* MaxRollNotes note-on records at ticks 0, 13 and 33 (1 ms per tick).
MaxRollNotes == 6

RollRecs ==
  { DataRec("Note_on_c", 0, <<0, 60, 64>>),
    DataRec("Note_on_c", 13, <<0, 62, 64>>),
    DataRec("Note_on_c", 33, <<0, 64, 64>>) }

RollInit ==
  /\ events \in {pre \o notes : pre \in {<<HeaderRec>>, <<>>},
                                 notes \in SeqsOver(RollRecs, MaxRollNotes)}
  /\ macro = <<>>
  /\ build = "start"
  /\ PlayerIdle
  /\ ToolsIdle

RollNext == BuildMacro

RollSpec == RollInit /\ [][RollNext]_vars

\* ------------------------------------------------------------ properties
Range(f) == {f[k] : k \in DOMAIN f}

\* C1: if cancellation is requested while play_macro waits for the next
\* event's time, the waiter is notified at once, it can return whatever is
\* left of the timeout, its next step is the return, the pending event is not
\* passed to keyboard.send on the way, and it does return.
C1_CancelDuringWait ==
  /\ [][\A w \in Tids :
          /\ (thr[w].pc = "wait" /\ ~stop_event /\ stop_event') => thr'[w].woken
          /\ (thr[w].pc = "wait" /\ thr[w].woken) =>
               /\ thr'[w].pc \in {"wait", "ret"}
               /\ thr'[w].woken
               /\ thr'[w].i = thr[w].i
               /\ sent'[w] = sent[w]
          /\ (thr[w].pc = "ret" /\ thr[w].mode = "bare") =>
               /\ thr'[w] = thr[w]
               /\ sent'[w] = sent[w]]_vars
  /\ [](\A w \in Tids : (thr[w].pc = "wait" /\ thr[w].woken) => ENABLED WaitWake(w))
  /\ \A w \in Tids :
       (thr[w].pc = "wait" /\ thr[w].woken)
         ~> (thr[w].pc = "ret" /\ thr[w].i \notin Range(sent[w]))

\* play_macro has returned through a notified wait, with the pending event
\* unsent, although the request was withdrawn before the waiter ran.
C1_Witness ==
  /\ thr[1].pc = "ret"
  /\ thr[1].woken
  /\ ~stop_event
  /\ thr[1].i >= 1
  /\ thr[1].i < Len(thr[1].macro)
  /\ sent[1] = [k \in 1..thr[1].i |-> k - 1]

\* C2: once a stop has been requested for a play thread (stop_playback, or
\* the hotkey while it plays), the thread passes no further stop check on
\* its way to keyboard.send, and a playlist thread starts no further track.
C2_StopIsFinal ==
  [][\A w \in Tids :
       stopReq[w] =>
         /\ (thr[w].pc # "send" => thr'[w].pc # "send")
         /\ (thr[w].pc # "pl_load" => thr'[w].pc # "pl_load")]_vars

\* C3: an event is passed to keyboard.send only once the session's un-paused
\* elapsed time (elapsed time minus the time spent paused) has reached the
\* event's time: when at least one clock unit was spent paused, the elapsed
\* time less that unit has reached it.
C3_PausedTimeNotCounted ==
  [][\A w \in Tids :
       (/\ Len(sent'[w]) > Len(sent[w])
        /\ thr[w].elapsed < ClockCap(thr[w].macro)
        /\ pausedT[w]) =>
         thr[w].elapsed - 1 >= EventAt(thr[w].macro, thr[w].i).time]_vars

\* C4: a pause does not terminate the worker: while the session is paused, no
\* stop has been requested for it and events remain, play_macro does not
\* return.
C4_PauseKeepsWorker ==
  [][\A w \in Tids :
       (/\ w = play_thread
        /\ is_paused
        /\ ~stopReq[w]
        /\ thr[w].pc \in PlayPcs
        /\ thr[w].i < Len(thr[w].macro)) => thr'[w].pc # "ret"]_vars

\* C5: at most one play thread is alive in every reachable state.
C5_OneWorker ==
  Cardinality({w \in Tids : thr[w].pc \notin {"none", "dead"}}) <= 1

\* A second session emits after the first one has been stopped for it.
C5_Witness ==
  /\ thr[1].pc = "dead"
  /\ thr[2].pc = "send"
  /\ play_thread = 2

\* C6: when the double-click handler that found a live play thread finishes,
\* that thread has ended and a new play thread has been started.
C6_NewPlayReplaces ==
  [][(main.pc = "join" /\ main.op = "dblclick" /\ main'.pc = "idle") =>
       /\ ~Alive(play_thread)
       /\ play_thread' # play_thread
       /\ thr'[play_thread'].pc = "s_start"]_vars

\* C7: play_macro passes the events to keyboard.send in list order, none
\* before the time since start has reached its time; the delay is the event's
\* time minus the time since start, and an event whose time has passed is not
\* waited for.
C7_InOrderNeverEarly ==
  [][\A w \in Tids :
       /\ sent'[w] # sent[w] =>
            /\ sent'[w] = Append(sent[w], Len(sent[w]))
            /\ thr[w].elapsed >= EventAt(thr[w].macro, Len(sent[w])).time
       /\ (thr[w].pc = "delay" /\ thr'[w].pc # "delay") =>
            LET t == EventAt(thr[w].macro, thr[w].i).time
            IN  IF t > thr[w].elapsed
                  THEN thr'[w].pc = "enter" /\ thr'[w].delay = t - thr[w].elapsed
                  ELSE thr'[w].pc = "check2"
       /\ (thr[w].pc = "enter" /\ thr'[w].pc = "wait") =>
            thr'[w].timer = thr[w].delay]_vars

\* The first event was waited for, the second one was already due.
C7_Witness ==
  /\ thr[1].pc = "report"
  /\ sent[1] = <<0, 1>>
  /\ thr[1].macro[1].time = 2
  /\ thr[1].macro[2].time = 1

ProgressAfterEmission(w) ==
  /\ Len(progress[w]) = IF thr[w].pc = "report" THEN Len(sent[w]) - 1 ELSE Len(sent[w])
  /\ \A k \in 1..Len(progress[w]) :
       /\ progress[w][k][3] = thr[w].macro[Len(thr[w].macro)].time
       /\ progress[w][k][2] >= EventAt(thr[w].macro, sent[w][k]).time
       /\ k > 1 => progress[w][k][2] >= progress[w][k - 1][2]

\* C9 as stated: the first argument is the index of the event just emitted.
C9_ProgressIsEventIndex ==
  \A w \in Tids :
    /\ ProgressAfterEmission(w)
    /\ \A k \in 1..Len(progress[w]) : progress[w][k][1] = sent[w][k]

\* C9, amended: the first argument is int((index + 1) / len(macro) * 1000),
\* the share of the macro emitted so far in thousandths.
C9_ProgressIsPermille ==
  \A w \in Tids :
    /\ ProgressAfterEmission(w)
    /\ \A k \in 1..Len(progress[w]) :
         LET v == progress[w][k][1]
             n == Len(thr[w].macro)
         IN  /\ v * n <= (sent[w][k] + 1) * 1000
             /\ (sent[w][k] + 1) * 1000 < (v + 1) * n

\* Two of three events are reported: 333, then 666.
C9_Witness ==
  /\ Len(thr[1].macro) = 3
  /\ Len(progress[1]) = 2
  /\ progress[1][1][1] = 333
  /\ progress[1][2][1] = 666
  /\ progress[1][2][3] = thr[1].macro[3].time

NonDecreasing(m) == \A k \in 1..(Len(m) - 1) : m[k].time <= m[k + 1].time

\* The anchors of the chord groups of m from index i on.
RECURSIVE Anchors(_, _)
Anchors(m, i) ==
  IF i > Len(m) THEN {} ELSE {i} \cup Anchors(m, GroupEnd(m, i, i + 1))

\* Every chord group of m that is followed by an event ends its roll no later
\* than that event.
RollFits(m) ==
  \A i \in Anchors(m, 1) :
    LET j == GroupEnd(m, i, i + 1)
    IN  j <= Len(m) => m[i].time + (j - i - 1) * CHORD_ROLL_STEP_US <= m[j].time

\* C10 as stated: the returned macro has non-decreasing time.
C10_NonDecreasing == build = "done" => NonDecreasing(macro)

\* C10, amended: the returned macro has non-decreasing time exactly when every
\* chord group of k members that is followed by another event has that event
\* at least (k - 1) * 5 ms after the group's first event.
C10_NonDecreasingIffRollFits ==
  build = "done" =>
    (NonDecreasing(macro) <=> RollFits(SortByTime(NoteEvents(events))))

\* A file given out of order whose chord of three is rolled ahead of a later note.
C10_Witness ==
  /\ build = "done"
  /\ Len(macro) = 4
  /\ events[2].time = 21
  /\ macro[3].time = 2 * CHORD_ROLL_STEP_US
  /\ macro[4].time = 21000
  /\ NonDecreasing(macro)

\* A is the set of group anchors of the time-sorted macro s: the first index,
\* and every index more than 20 ms after the anchor before it.
IsAnchorSet(s, A) ==
  \A k \in 1..Len(s) :
    k \in A <=>
      \/ k = 1
      \/ LET before == {a \in A : a < k}
         IN  /\ before # {}
             /\ \A a \in before :
                  (\A b \in before : b <= a) =>
                    s[k].time - s[a].time > CHORD_WINDOW_US

\* The anchor of index k and the size of its group, given the anchors A.
AnchorOf(A, k) == CHOOSE a \in A : a <= k /\ \A b \in A : b <= k => b <= a
GroupSize(A, n, a) ==
  Cardinality({k \in 1..n : AnchorOf(A, k) = a})

Sounding(evs) ==
  {i \in 1..Len(evs) :
     /\ evs[i].is_data
     /\ evs[i].type = "Note_on_c"
     /\ evs[i].args[3] > 0
     /\ evs[i].args[2] \in BASE_LOW..(BASE_HIGH + 11)}

\* What record i is emitted as, with and without its time.
NoteOf(evs, i) ==
  [key |-> pitch_to_key(evs[i].args[2]),
   pitch |-> evs[i].args[2],
   channel |-> evs[i].args[1]]
TimedNoteOf(evs, i) ==
  [time |-> ticks_to_ms(evs[i].time, extract_tempo_map(evs).tempo_map,
                        extract_tempo_map(evs).division),
   key |-> pitch_to_key(evs[i].args[2]),
   pitch |-> evs[i].args[2],
   channel |-> evs[i].args[1]]
Untimed(e) == [key |-> e.key, pitch |-> e.pitch, channel |-> e.channel]

\* C12 as stated: the events of the macro are, one for one, the sounding
\* resolved note-on records, each with its key, pitch, channel and the time
\* its tick converts to.
C12_OneEventPerNoteWithTickTime ==
  build = "done" =>
    /\ Len(macro) = Cardinality(Sounding(events))
    /\ \A i \in Sounding(events) :
         Cardinality({k \in 1..Len(macro) : macro[k] = TimedNoteOf(events, i)})
           = Cardinality({j \in Sounding(events) :
                            TimedNoteOf(events, j) = TimedNoteOf(events, i)})

\* C12: the events of the macro are, one for one, the sounding resolved
\* note-on records, each with its key, pitch and channel; the time is the one
\* the note's tick converts to for every note that has no other emitted note
\* within 20 ms of it (the others are moved by the chord roll).
C12_OneEventPerNote ==
  build = "done" =>
    /\ Len(macro) = Cardinality(Sounding(events))
    /\ \A i \in Sounding(events) :
         /\ Cardinality({k \in 1..Len(macro) : Untimed(macro[k]) = NoteOf(events, i)})
              = Cardinality({j \in Sounding(events) :
                               NoteOf(events, j) = NoteOf(events, i)})
         /\ (\A j \in Sounding(events) \ {i} :
               LET d == TimedNoteOf(events, j).time - TimedNoteOf(events, i).time
               IN  d > CHORD_WINDOW_US \/ d < 0 - CHORD_WINDOW_US)
             => \E k \in 1..Len(macro) : macro[k] = TimedNoteOf(events, i)

\* A file with a note-off, a velocity-0 note-on and an unresolved pitch 84,
\* followed by two notes more than 20 ms apart: the build completes with
\* exactly the two notes, at their converted times.
C12_Witness ==
  /\ build = "done"
  /\ \E i \in 1..Len(events) : events[i].is_data /\ events[i].type = "Note_off_c"
  /\ \E i \in 1..Len(events) :
       /\ events[i].is_data /\ events[i].type = "Note_on_c"
       /\ events[i].args[3] = 0
  /\ \E i \in 1..Len(events) :
       /\ events[i].is_data /\ events[i].type = "Note_on_c"
       /\ events[i].args[3] > 0 /\ events[i].args[2] = 84
  /\ Len(macro) = 2
  /\ macro[1] = [time |-> 0, key |-> "a", pitch |-> 60, channel |-> 0]
  /\ macro[2].pitch = 72
  /\ macro[2].time > CHORD_WINDOW_US

\* The file has a data record of type Header.
HasHeader(evs) == \E i \in 1..Len(evs) : evs[i].is_data /\ evs[i].type = "Header"

\* C13: without a Header record extract_tempo_map raises, the error leaves
\* csv_to_keystroke_macro, and no macro is returned, not even a partial one;
\* with a Header the build is not stopped by it.
C13_RaisesWithoutHeader ==
  /\ ~HasHeader(events) => extract_tempo_map(events).raised
  /\ build # "start" =>
       /\ build = "raised" <=> ~HasHeader(events)
       /\ build = "raised" => macro = <<>>

\* A file of playable notes and no Header: the build has raised, with no macro.
C13_Witness ==
  /\ build = "raised"
  /\ Sounding(events) # {}
  /\ macro = <<>>

\* The ticks of the Tempo records of a file.
TempoTicks(evs) ==
  {evs[i].time : i \in {j \in 1..Len(evs) : evs[j].is_data /\ evs[j].type = "Tempo"}}

\* C14: the schedule of extract_tempo_map is sorted by tick and starts at tick
\* 0: when the file has no Tempo record at tick 0, the schedule begins with
\* (0, 500000), and a tick before the first Tempo record converts at 500000
\* microseconds per quarter note.
C14_ScheduleCoversFromZero ==
  HasHeader(events) =>
    LET e == extract_tempo_map(events)
        tm == e.tempo_map
    IN  /\ \A i, j \in 1..Len(tm) : i < j => tm[i][1] <= tm[j][1]
        /\ tm # <<>>
        /\ tm[1][1] = 0
        /\ 0 \notin TempoTicks(events) =>
             /\ tm[1] = <<0, 500000>>
             /\ \A t \in 0..MaxT :
                  (\A u \in TempoTicks(events) : t <= u) =>
                    ticks_to_ms(t, tm, e.division) = (t * 500000) \div e.division

\* The schedule of the file has one segment, and it starts at tick 0.
SingleSegmentAtZero ==
  /\ Len(extract_tempo_map(events).tempo_map) = 1
  /\ extract_tempo_map(events).tempo_map[1][1] = 0

\* C15: with the schedule extract_tempo_map returns (positive tempos, positive
\* division), a call of ticks_to_ms with a tick no smaller than the tick of
\* the call before returns no less than that call did.
C15_MonotoneInTick ==
  [][(tick_arg >= 0 /\ tick_arg <= tick_arg') => ms_ret <= ms_ret']_vars

\* Tempo records at ticks 2, 2 and 4: the call for a tick past the last
\* boundary returned the sum over all the segments.
C15_Witness ==
  /\ Len(events) = 4
  /\ events[2] = DataRec("Tempo", 4, <<500000>>)
  /\ events[3] = DataRec("Tempo", 2, <<250000>>)
  /\ events[4] = DataRec("Tempo", 2, <<1000000>>)
  /\ events[1].args[3] = 500
  /\ tick_arg = 5
  /\ ms_ret = 2 * 2000 + 1000

\* C16: with a single segment starting at tick 0, the call for twice the tick
\* of the call before returns exactly twice what that call returned.
C16_LinearInTick ==
  [][(tick_arg >= 0 /\ SingleSegmentAtZero /\ tick_arg' = 2 * tick_arg)
       => ms_ret' = 2 * ms_ret]_vars

\* One segment of 250000 at tick 0, division 500: tick 6 took 3 ms.
C16_Witness ==
  /\ events = <<DataRec("Header", 0, <<1, 2, 500>>), DataRec("Tempo", 0, <<250000>>)>>
  /\ tick_arg = 6
  /\ ms_ret = 3000

\* The note events of a list, by index, and the largest of a set of pitches.
NoteIdx(evs) ==
  {i \in 1..Len(evs) :
     /\ evs[i].is_data
     /\ evs[i].type \in {"Note_on_c", "Note_off_c"}
     /\ Len(evs[i].args) >= 2}
PitchesOf(evs) == {evs[i].args[2] : i \in NoteIdx(evs)}
MaxOf(S) == CHOOSE p \in S : \A q \in S : q <= p

\* C17: when the input has a note event, the largest pitch among the note
\* events of the result is window_max, and every event that carried the
\* highest pitch of the input is in the result, with pitch window_max.
C17_HighestLandsOnWindowMax ==
  (mapped.called /\ PitchesOf(events) # {}) =>
    /\ PitchesOf(mapped.result) # {}
    /\ MaxOf(PitchesOf(mapped.result)) = window_max
    /\ \A i \in NoteIdx(events) :
         events[i].args[2] = MaxOf(PitchesOf(events)) =>
           Cardinality({k \in 1..Len(mapped.result) :
                          mapped.result[k] = [events[i] EXCEPT !.args[2] = window_max]})
             = Cardinality({j \in 1..Len(events) : events[j] = events[i]})

\* A note-on and a note-off of 90 and a note-off of 60, window [60, 71]: both
\* records of 90 are returned with pitch 71, the 60 is gone.
C17_Witness ==
  /\ mapped.called
  /\ window_max = 71
  /\ events = <<DataRec("Note_on_c", 0, <<1, 90, 64>>),
                DataRec("Note_off_c", 3, <<1, 60, 64>>),
                DataRec("Note_off_c", 2, <<1, 90, 0>>)>>
  /\ mapped.result = <<DataRec("Note_on_c", 0, <<1, 71, 64>>),
                       DataRec("Note_off_c", 2, <<1, 71, 0>>)>>

\* The indices apply_hand_mapping is to keep: every record that is not a note
\* event, and the note events whose pitch plus (window_max - highest pitch) is
\* inside the window.  Nth(K, k) is the k-th smallest member of K.
ShiftOf(evs) == window_max - MaxOf(PitchesOf(evs))
InsideAfterShift(evs) ==
  {i \in 1..Len(evs) :
     i \in NoteIdx(evs) =>
       /\ evs[i].args[2] + ShiftOf(evs) >= window_min
       /\ evs[i].args[2] + ShiftOf(evs) <= window_max}
Nth(K, k) == CHOOSE i \in K : Cardinality({j \in K : j < i}) = k - 1

\* C18: one offset, window_max minus the highest pitch, is added to every note
\* event; a note event whose shifted pitch is outside [window_min, window_max]
\* is dropped, not clamped: the result is, in order, the records whose shifted
\* pitch is inside the window, each note event with its pitch plus the offset.
C18_OneOffsetDropOutside ==
  (mapped.called /\ PitchesOf(events) # {}) =>
    LET K == InsideAfterShift(events)
        res == mapped.result
    IN  /\ Len(res) = Cardinality(K)
        /\ \A k \in 1..Len(res) :
             LET i == Nth(K, k)
             IN  IF i \in NoteIdx(events)
                   THEN /\ res[k] = [events[i] EXCEPT !.args[2] = @ + ShiftOf(events)]
                        /\ res[k].args[2] \in window_min..window_max
                   ELSE res[k] = events[i]

\* Window [48, 83], pitches 40 and 90: the offset is -7, the 40 would be 33
\* and is dropped, the 90 is returned as 83.
C18_Witness ==
  /\ mapped.called
  /\ window_min = 48
  /\ window_max = 83
  /\ events = <<DataRec("Note_on_c", 0, <<0, 40, 64>>),
                DataRec("Note_on_c", 0, <<1, 90, 64>>)>>
  /\ mapped.result = <<DataRec("Note_on_c", 0, <<1, 83, 64>>)>>

\* Where record i of the input is in the result: the positions holding a record
\* equal to it in everything but the pitch.  (No two records of the files
\* differ in their pitch alone.)
PlacesOf(i) ==
  {k \in 1..Len(mapped.result) :
     /\ mapped.result[k].is_data
     /\ Len(mapped.result[k].args) >= 2
     /\ [mapped.result[k] EXCEPT !.args[2] = 0] = [events[i] EXCEPT !.args[2] = 0]}

\* C19: a Note_on_c and a Note_off_c of the same pitch in the input are both
\* in the result or both missing from it, and when they are in it they have
\* the same new pitch, whatever their channel, tick and velocity.
C19_PairsStayAligned ==
  mapped.called =>
    \A i, j \in NoteIdx(events) :
      (/\ events[i].type = "Note_on_c"
       /\ events[j].type = "Note_off_c"
       /\ events[i].args[2] = events[j].args[2])
      => /\ PlacesOf(i) = {} <=> PlacesOf(j) = {}
         /\ \A k \in PlacesOf(i), l \in PlacesOf(j) :
              mapped.result[k].args[2] = mapped.result[l].args[2]

\* A note-on and a note-off of 60 on different channels, ticks and velocities,
\* under a note of 90 and the window [48, 83]: both are returned with pitch 53.
C19_Witness ==
  /\ mapped.called
  /\ window_max = 83
  /\ events = <<DataRec("Note_on_c", 1, <<0, 60, 0>>),
                DataRec("Note_on_c", 0, <<1, 90, 64>>),
                DataRec("Note_off_c", 3, <<1, 60, 64>>)>>
  /\ mapped.result[1].args[2] = 53
  /\ mapped.result[3].args[2] = 53

\* The keys of the instrument, and a key held with a modifier.
Letters ==
  {"q", "w", "e", "r", "t", "y", "u", "a", "s", "d", "f", "g", "h", "j",
   "z", "x", "c", "v", "b", "n", "m"}
WithShift == {"shift+" \o l : l \in Letters}
WithCtrl == {"ctrl+" \o l : l \in Letters}

\* C20: pitch_to_key returns a key combination for the pitches 48..83 and
\* None for every other one; in each octave the semitones 0, 2, 4, 5, 7, 9, 11
\* are a bare key, 1, 6, 8 a key with shift and 3, 10 a key with ctrl; the
\* call changes nothing else, and asked the same pitch again it returns the
\* same.
C20_KeyTable ==
  /\ [](key_combo # "unset" =>
          IF pitch_arg \in 48..83
            THEN LET semitone == (pitch_arg - 48) % 12
                 IN  /\ semitone \in {0, 2, 4, 5, 7, 9, 11} => key_combo \in Letters
                     /\ semitone \in {1, 6, 8} => key_combo \in WithShift
                     /\ semitone \in {3, 10} => key_combo \in WithCtrl
            ELSE key_combo = None)
  /\ [][/\ (key_combo # "unset" /\ pitch_arg' = pitch_arg) => key_combo' = key_combo
        /\ UNCHANGED <<events, macro, build, tick_arg, ms_ret, window_min,
                       window_max, mapped, loadVars, builds, playVars, guiVars, histVars>>]_vars

\* Pitch 75, semitone 3 of the high octave, resolved to ctrl+e.
C20_Witness ==
  /\ pitch_arg = 75
  /\ key_combo = "ctrl+e"

\* C21: a build from records with no playable note-on, the empty list of
\* records included, returns the empty macro and does not raise.
C21_NothingToPlayIsEmptyMacro ==
  (build # "start" /\ Sounding(events) = {}) =>
    /\ build = "done"
    /\ macro = <<>>

\* A line with at least three fields whose track or tick is no integer.
BadNumber(line) ==
  /\ ~line.note
  /\ Len(line.parts) >= 3
  /\ (line.parts[1] \notin DOMAIN Numerals \/ line.parts[2] \notin DOMAIN Numerals)

\* C22: load_midicsv never stops at an invalid line: it returns one record per
\* line, a non-data record for every line with fewer than three fields or with
\* a track or tick that is no integer, and a data record for every well-formed
\* line, those after an invalid line included.
C22_InvalidLineIsSkipped ==
  loaded.status # "none" =>
    /\ loaded.status = "done"
    /\ Len(loaded.events) = Len(lines)
    /\ \A i \in 1..Len(lines) :
         loaded.events[i].is_data
           <=> (~lines[i].note /\ Len(lines[i].parts) >= 3 /\ ~BadNumber(lines[i]))

\* The sounding notes of a file: the note-on records of velocity above 0.
SoundingIdx(evs) ==
  {i \in 1..Len(evs) :
     /\ evs[i].is_data
     /\ evs[i].type = "Note_on_c"
     /\ Len(evs[i].args) >= 3
     /\ evs[i].args[3] > 0}

\* C23: after process_file with the configured window, every sounding note of
\* the greatest pitch among the sounding notes is in the file written, with
\* pitch window_max, and the macro has an event of that pitch for it.
C23_HighestSoundingNoteIsPlayed ==
  (build = "done" /\ SoundingIdx(events) # {}) =>
    \A i \in SoundingIdx(events) :
      (\A j \in SoundingIdx(events) : events[j].args[2] <= events[i].args[2]) =>
        /\ \E k \in 1..Len(mapped.result) :
             mapped.result[k] = [events[i] EXCEPT !.args[2] = window_max]
        /\ \E k \in 1..Len(macro) :
             /\ macro[k].pitch = window_max
             /\ macro[k].channel = events[i].args[1]

\* The reference: the sum over the segments i..Len(tm) of the schedule tm of
\* the ticks segment i shares with [start_i, min(start_(i+1), t)], the last
\* segment reaching to t, times tempo_i / division (microseconds).
RECURSIVE ReferenceSum(_, _, _, _)
ReferenceSum(tm, division, t, i) ==
  IF i > Len(tm) THEN 0
  ELSE LET upto == IF i < Len(tm) /\ tm[i + 1][1] < t THEN tm[i + 1][1] ELSE t
           overlap == IF upto > tm[i][1] THEN upto - tm[i][1] ELSE 0
       IN  (overlap * tm[i][2]) \div division + ReferenceSum(tm, division, t, i + 1)

\* C24: for a tick from 0 on and the sorted schedule of the file, ticks_to_ms
\* returns the reference sum over all the segments; a tick on a segment
\* boundary takes nothing from the segment that starts there.
C24_EqualsReferenceSum ==
  tick_arg >= 0 =>
    ms_ret = ReferenceSum(extract_tempo_map(events).tempo_map,
                          extract_tempo_map(events).division, tick_arg, 1)

\* Segments from ticks 0 and 2, division 500: tick 2, on the boundary, took the
\* two ticks of the first segment and none of the second.
C24_Witness ==
  /\ events = <<DataRec("Header", 0, <<1, 2, 500>>),
                DataRec("Tempo", 2, <<1000000>>),
                DataRec("Tempo", 0, <<500000>>)>>
  /\ tick_arg = 2
  /\ ms_ret = 2000

\* A record that is no Note_on_c or Note_off_c.
NotANote(ev) == ~ev.is_data \/ ev.type \notin {"Note_on_c", "Note_off_c"}

\* Record r is record e, but for the pitch when e is a note event.
SameButPitch(r, e) ==
  IF e.is_data /\ e.type \in {"Note_on_c", "Note_off_c"} /\ Len(e.args) >= 2
    THEN /\ r.is_data
         /\ Len(r.args) >= 2
         /\ [r EXCEPT !.args[2] = 0] = [e EXCEPT !.args[2] = 0]
    ELSE r = e

\* res, from position k on, is found in order among evs from position i on.
RECURSIVE InOrderWithin(_, _, _, _)
InOrderWithin(res, evs, k, i) ==
  IF k > Len(res) THEN TRUE
  ELSE IF i > Len(evs) THEN FALSE
  ELSE IF SameButPitch(res[k], evs[i]) THEN InOrderWithin(res, evs, k + 1, i + 1)
  ELSE InOrderWithin(res, evs, k, i + 1)

\* C25: apply_hand_mapping changes nothing but note pitches: the records that
\* are no Note_on_c/Note_off_c are all in the result, unchanged and in their
\* order; the records of the result are in the order of the input; and an
\* input without note events is returned as it is.
C25_OnlyPitchesChange ==
  mapped.called =>
    /\ SelectSeq(mapped.result, NotANote) = SelectSeq(events, NotANote)
    /\ InOrderWithin(mapped.result, events, 1, 1)
    /\ PitchesOf(events) = {} => mapped.result = events

\* A Header between two notes, window [48, 83]: the 40 is dropped, the Header
\* and the 90 (now 83) are returned in their order.
C25_Witness ==
  /\ mapped.called
  /\ window_max = 83
  /\ events = <<DataRec("Note_on_c", 0, <<0, 40, 64>>),
                HeaderRec,
                DataRec("Note_off_c", 2, <<1, 90, 0>>)>>
  /\ mapped.result = <<HeaderRec, DataRec("Note_off_c", 2, <<1, 83, 0>>)>>

\* C26: every entry of macro_cache holds, under a path, the macro built from
\* that path.
C26_CacheEntryIsOfItsPath ==
  \A p \in Paths : macro_cache[p] # None => macro_cache[p] = p

\* C27: a single-track play thread that calls play_macro plays the macro built
\* from current_midi_path.
C27_PlaysTheSelectedSong ==
  [][(thr[1].pc = "s_start" /\ thr'[1].pc = "call")
       => thr'[1].macro = FileMacro(current_midi_path')]_vars


\* Every chord group that roll_chords_in_macro finds in the time-sorted macro s
\* has at most 5 members.
SmallGroups(s) ==
  \A i \in Anchors(s, 1) : GroupEnd(s, i, i + 1) - i <= 5

StrictlyIncreasing(m) == \A k \in 1..(Len(m) - 1) : m[k].time < m[k + 1].time

\* C28: if every chord group found by roll_chords_in_macro has at most 5
\* members, the rolled macro is strictly increasing in time: no two events
\* share a time and no rolled event reaches the anchor of the next group.
C28_SmallGroupsStrictlyIncreasing ==
  build = "done" =>
    (SmallGroups(SortByTime(NoteEvents(events))) => StrictlyIncreasing(macro))

\* C29: pitch_to_key is injective on 48..83: the key combination returned for
\* a pitch in 48..83 is returned for no other pitch in 48..83, and two
\* successive calls that return the same combination were given the same pitch.
C29_KeyIsOfOnePitch ==
  /\ [](key_combo # "unset" /\ pitch_arg \in 48..83 =>
          /\ key_combo # None
          /\ \A q \in 48..83 : pitch_to_key(q) = key_combo => q = pitch_arg)
  /\ [][(key_combo # "unset" /\ pitch_arg \in 48..83 /\ pitch_arg' \in 48..83
           /\ key_combo' = key_combo) => pitch_arg' = pitch_arg]_vars

\* Pitch 72 resolved to q, while the same semitone an octave and two octaves
\* lower has the keys a and z.
C29_Witness ==
  /\ pitch_arg = 72
  /\ key_combo = "q"
  /\ pitch_to_key(60) = "a"
  /\ pitch_to_key(48) = "z"

\* The number of members of the set S of indices of seq chosen by Test.
CountOf(S, Test(_)) == Cardinality({i \in S : Test(i)})

\* C30: with the configured window 48..83, every note-on record of velocity
\* above 0 in the file process_file wrote has a pitch that pitch_to_key
\* resolves, and the macro built from that file has exactly one event for each
\* of them: as many events of each pitch and channel as the file has such
\* records.
C30_MapperAndResolverAgree ==
  mapped.called =>
    LET w == mapped.result
    IN  /\ \A i \in SoundingIdx(w) : pitch_to_key(w[i].args[2]) # None
        /\ build = "done" =>
             /\ Len(macro) = Cardinality(SoundingIdx(w))
             /\ \A i \in SoundingIdx(w) :
                  CountOf(1..Len(macro),
                          LAMBDA k : /\ macro[k].pitch = w[i].args[2]
                                     /\ macro[k].channel = w[i].args[1]
                                     /\ macro[k].key = pitch_to_key(w[i].args[2]))
                    = CountOf(SoundingIdx(w),
                              LAMBDA j : /\ w[j].args[2] = w[i].args[2]
                                         /\ w[j].args[1] = w[i].args[1])

\* A Header, a sounding 90 and a sounding 40: the 90 is written as 83 and
\* played, the 40 would be 33 and is dropped by the mapper.
C30_Witness ==
  /\ build = "done"
  /\ Len(events) = 3
  /\ \E i \in SoundingIdx(events) : events[i].args[2] = 40
  /\ Len(mapped.result) = 2
  /\ Len(macro) = 1
  /\ macro[1].pitch = 83
  /\ macro[1].key = "u"

=============================================================================
